---------------------------- MODULE Spec2Model ----------------------------
(***************************************************************************)
(* cityjobs: the NYC Jobs pipeline of functions/main.py.                   *)
(*                                                                         *)
(* The state is the GCS bucket (raw/<ts>.json, processed/<ts>.parquet,     *)
(* jobs_history.parquet, metadata.json) and, per worker, the position and  *)
(* the local variables of the run of process_latest or reprocess_all it is *)
(* executing.  Every bucket operation, the probe, the fetch and the DuckDB *)
(* steps are separate steps, and each may raise, which main() turns into   *)
(* the 500 response.                                                       *)
(*                                                                         *)
(* A timestamp is a positive integer (0 is Python's None); the name of a   *)
(* blob is the pair <<prefix, timestamp>>.  All names of one prefix have   *)
(* the same width (datetime.isoformat() of a whole second, +00:00), so the *)
(* order of the names is the order of the timestamps.                      *)
(***************************************************************************)
EXTENDS Integers, Sequences, FiniteSets

VARIABLES
    bucket,     \* the GCS bucket: blob name -> content
    pc,         \* worker -> position in main.py
    loc,        \* worker -> local variables of its run
    outcome,    \* worker -> the response of its last run
    clock,      \* datetime.now(): the number of runs started
    overlap,    \* whether the trigger lets runs overlap (spec section 5)
    run,        \* worker -> record of its current or last run (history)
    lastRA,     \* the store after the last completed reprocess_all, and
    prevRA,     \* after the one completed before it (no raw snapshot since)
    seen,       \* the versions recorded and the probe strings fetched so far
    source      \* the Socrata dataset: how many records it holds, and the
                \* sub-second parts its process_date values take

vars == <<bucket, pc, loc, outcome, clock, overlap, run, lastRA, prevRA,
          seen, source>>

----------------------------------------------------------------------------
(* Bounds *)

MaxVersion == 3     \* upstream process_date values 1..MaxVersion
MaxFrac == 1        \* fractional parts ".000", ".001" of the probed string
MaxData == 2        \* distinct record sets upstream may serve
MaxRuns == 3        \* runs started in one behaviour

Procs == {"a", "b"}
Versions == 1..MaxVersion
Datasets == 1..MaxData

----------------------------------------------------------------------------
(* Blob names and contents *)

RawPath(ts) == <<"raw", ts>>
ParquetPath(ts) == <<"processed", ts>>
HistoryPath == <<"jobs_history.parquet", 0>>
MetadataPath == <<"metadata.json", 0>>

Exists(b, k) == k \in DOMAIN b
Upload(b, k, content) == [x \in DOMAIN b \cup {k} |-> IF x = k THEN content ELSE b[x]]
Delete(b, k) == [x \in DOMAIN b \ {k} |-> b[x]]
ListBlobs(b, prefix) == {k \in DOMAIN b : k[1] = prefix}

EmptyBucket == [k \in {} |-> 0]

\* PipelineState.empty(): every field None.
EmptyState ==
    [source_updated_at |-> 0, last_fetched_at |-> 0,
     last_processed_at |-> 0, record_count |-> 0]

\* PipelineState.raw_path / parquet_path: None (0) for the empty state.
StateRawPath(state) ==
    IF state.source_updated_at = 0 THEN <<"none", 0>>
    ELSE <<"raw", state.source_updated_at>>

StateParquetPath(state) ==
    IF state.source_updated_at = 0 THEN <<"none", 0>>
    ELSE <<"processed", state.source_updated_at>>

\* to_json / from_json (mashumaro): a text that parses back to the state;
\* any other text makes from_json raise.
ToJson(state) == [format |-> "PipelineState", fields |-> state]
Parses(text) == text.format = "PipelineState"
FromJson(text) == text.fields
Garbled == [format |-> "garbled", fields |-> EmptyState]

\* "2026-01-26T00:00:00.000".split(".")[0] + "+00:00": the fraction is dropped.
ParseProcessDate(process_date_str) == process_date_str.sec

ProbeStrings == [sec : Versions, frac : 0..MaxFrac]

\* process_jobs: the parquet is a function of the raw JSON alone.
Transform(raw) == [rows |-> raw.data]

\* HistoryOf with SELECT DISTINCT: equal rows of two processed files kept once.
HistoryOf_Distinct(b) ==
    LET files == ListBlobs(b, "processed")
        groups == {b[k].rows : k \in files}
    IN [history |-> [g \in groups |-> 1]]

\* SELECT * EXCLUDE(...) FROM read_parquet('processed/*.parquet'): the rows of
\* every processed file, with multiplicity (one entry per row group).
HistoryOf(b) ==
    LET files == ListBlobs(b, "processed")
        groups == {b[k].rows : k \in files}
    IN [history |-> [g \in groups |-> Cardinality({k \in files : b[k].rows = g})]]

RECURSIVE Sorted_Descending(_)
\* Sorted with reverse=True: the newest snapshot first.
Sorted_Descending(S) ==
    IF S = {} THEN <<>>
    ELSE LET m == CHOOSE x \in S : \A y \in S : x[2] >= y[2]
         IN <<m>> \o Sorted_Descending(S \ {m})

RECURSIVE Sorted(_)
\* sorted(blobs, key=lambda b: b.name), as a sequence of names
Sorted(S) ==
    IF S = {} THEN <<>>
    ELSE LET m == CHOOSE x \in S : \A y \in S : x[2] <= y[2]
         IN <<m>> \o Sorted(S \ {m})

----------------------------------------------------------------------------
(* Responses of main() *)

\* (text, status); "error" is the exception main() caught and formatted into
\* f"Error: {e}", named by the call that raised it.
NoResponse == [msg |-> "", error |-> "", status |-> 0]
OK == [msg |-> "OK", error |-> "", status |-> 200]
NoNewData == [msg |-> "No new data", error |-> "", status |-> 200]
NoProcessDate ==
    [msg |-> "Error: could not get process_date", error |-> "", status |-> 500]
NoRawFiles == [msg |-> "No raw files to process", error |-> "", status |-> 200]
Reprocessed == [msg |-> "Reprocessed", error |-> "", status |-> 200]
Error(e) == [msg |-> "Error: ", error |-> e, status |-> 500]

NoString == [sec |-> 0, frac |-> 0]

InitLoc ==
    [state |-> EmptyState, process_date_str |-> NoString, process_date |-> 0,
     raw_blobs |-> <<>>, processed_blobs |-> <<>>, latest_timestamp |-> 0]

NoRun == [kind |-> "none", start |-> EmptyBucket, log |-> <<>>, probed |-> 0]

StoreView(b) ==
    [processed |-> [k \in ListBlobs(b, "processed") |-> b[k]],
     history |-> IF Exists(b, HistoryPath) THEN <<b[HistoryPath]>> ELSE <<>>,
     source_updated_at |-> IF Exists(b, MetadataPath) /\ Parses(b[MetadataPath])
                           THEN FromJson(b[MetadataPath]).source_updated_at ELSE 0]

\* A dataset whose process_date values are whole seconds
\* ("2026-01-26T00:00:00.000"), and one that also stamps fractions.
WholeSeconds == [records |-> 0, fracs |-> {0}]
SubSeconds == [records |-> 0, fracs |-> 0..MaxFrac]

\* lastRA and prevRA hold <<StoreView>>, or <<>> when there is none.
NoView == <<>>

Init ==
    /\ bucket = EmptyBucket
    /\ pc = [p \in Procs |-> "idle"]
    /\ loc = [p \in Procs |-> InitLoc]
    /\ outcome = [p \in Procs |-> NoResponse]
    /\ clock = 0
    /\ overlap = FALSE
    /\ run = [p \in Procs |-> NoRun]
    /\ lastRA = NoView
    /\ prevRA = NoView
    /\ seen = [recorded |-> {}, fetched |-> {}]
    /\ source = WholeSeconds

----------------------------------------------------------------------------
(* Steps shared by both handlers *)

Logged(p, op, k) == [run EXCEPT ![p].log = Append(@, <<op, k>>)]

\* return <response>: the locals are gone.
Return(p, response) ==
    /\ pc' = [pc EXCEPT ![p] = "idle"]
    /\ loc' = [loc EXCEPT ![p] = InitLoc]
    /\ outcome' = [outcome EXCEPT ![p] = response]

\* Start with no serialization by the trigger: any idle worker takes a
\* request while another run is in flight.
Start_Unserialized(p, action) ==
    /\ pc[p] = "idle"
    /\ clock < MaxRuns
    /\ clock' = clock + 1
    /\ pc' = [pc EXCEPT ![p] = IF action = "reprocess_all" THEN "ra_get_state"
                                                           ELSE "pl_get_state"]
    /\ loc' = [loc EXCEPT ![p] = InitLoc]
    /\ outcome' = [outcome EXCEPT ![p] = NoResponse]
    /\ run' = [run EXCEPT ![p] = [kind |-> action, start |-> bucket,
                                  log |-> <<>>, probed |-> 0]]
    /\ UNCHANGED <<bucket, overlap, lastRA, prevRA, seen, source>>

\* main(): route on the action parameter.  Runs are serialized by the trigger
\* unless overlap is set; serialized runs all execute on worker "a", and when
\* runs overlap each worker serves one request.
Start(p, action) ==
    /\ pc[p] = "idle"
    /\ clock < MaxRuns
    /\ IF overlap THEN run[p].kind = "none"
       ELSE p = "a" /\ \A q \in Procs : pc[q] = "idle"
    /\ clock' = clock + 1
    /\ pc' = [pc EXCEPT ![p] = IF action = "reprocess_all" THEN "ra_get_state"
                                                           ELSE "pl_get_state"]
    /\ loc' = [loc EXCEPT ![p] = InitLoc]
    /\ outcome' = [outcome EXCEPT ![p] = NoResponse]
    /\ run' = [run EXCEPT ![p] = [kind |-> action, start |-> bucket,
                                  log |-> <<>>, probed |-> 0]]
    /\ UNCHANGED <<bucket, overlap, lastRA, prevRA, seen, source>>

StartLatest(p) == Start(p, "latest")
StartReprocessAll(p) == Start(p, "reprocess_all")

\* get_state: the parsed metadata.json, the empty state when there is none;
\* from_json raises on a text that does not parse, and main() answers 500.
GetState(p, here, next) ==
    /\ pc[p] = here
    /\ IF Exists(bucket, MetadataPath) /\ ~Parses(bucket[MetadataPath])
       THEN Return(p, Error("from_json"))
       ELSE /\ pc' = [pc EXCEPT ![p] = next]
            /\ loc' = [loc EXCEPT ![p].state =
                         IF Exists(bucket, MetadataPath)
                         THEN FromJson(bucket[MetadataPath]) ELSE EmptyState]
            /\ UNCHANGED outcome
    /\ UNCHANGED <<bucket, clock, overlap, run, lastRA, prevRA, seen, source>>

\* update_state: metadata.json replaced by state.to_json().
UpdateState(b, state) == Upload(b, MetadataPath, ToJson(state))

\* Any step in flight raises (network, store, DuckDB): main() logs it and
\* answers 500; nothing is undone.
Raise(p) ==
    /\ pc[p] # "idle"
    /\ Return(p, Error(pc[p]))
    /\ UNCHANGED <<bucket, clock, overlap, run, lastRA, prevRA, seen, source>>

----------------------------------------------------------------------------
(* process_latest *)

PL_GetState(p) == GetState(p, "pl_get_state", "pl_probe")

\* get_current_process_date(): the one-record probe returns the upstream
\* process_date string.
PL_Probe(p) ==
    /\ pc[p] = "pl_probe"
    /\ \E s \in ProbeStrings :
          /\ s.frac \in source.fracs
          /\ loc' = [loc EXCEPT ![p].process_date_str = s,
                                ![p].process_date = ParseProcessDate(s)]
          /\ run' = [run EXCEPT ![p].probed = ParseProcessDate(s)]
    /\ pc' = [pc EXCEPT ![p] = "pl_check"]
    /\ UNCHANGED <<bucket, outcome, clock, overlap, lastRA, prevRA, seen, source>>

\* The probe returns nothing: "Error: could not get process_date", 500.
PL_ProbeNone(p) ==
    /\ pc[p] = "pl_probe"
    /\ Return(p, NoProcessDate)
    /\ UNCHANGED <<bucket, clock, overlap, run, lastRA, prevRA, seen, source>>

\* PL_Check looking for the processed artifact of the probed version.
PL_Check_ProcessedGuard(p) ==
    /\ pc[p] = "pl_check"
    /\ IF Exists(bucket, ParquetPath(loc[p].process_date))
       THEN Return(p, NoNewData)
       ELSE /\ pc' = [pc EXCEPT ![p] = "pl_fetch"]
            /\ loc' = [loc EXCEPT ![p].state.source_updated_at = loc[p].process_date,
                                  ![p].state.last_fetched_at = clock]
            /\ UNCHANGED outcome
    /\ UNCHANGED <<bucket, clock, overlap, run, lastRA, prevRA, seen, source>>

\* PL_Check comparing the probed version with the persisted one, not looking
\* for the raw snapshot.
PL_Check_CompareState(p) ==
    /\ pc[p] = "pl_check"
    /\ IF loc[p].state.source_updated_at = loc[p].process_date
       THEN Return(p, NoNewData)
       ELSE /\ pc' = [pc EXCEPT ![p] = "pl_fetch"]
            /\ loc' = [loc EXCEPT ![p].state.source_updated_at = loc[p].process_date,
                                  ![p].state.last_fetched_at = clock]
            /\ UNCHANGED outcome
    /\ UNCHANGED <<bucket, clock, overlap, run, lastRA, prevRA, seen, source>>

\* PL_Check persisting the state as soon as its fields are set.
PL_Check_EagerState(p) ==
    /\ pc[p] = "pl_check"
    /\ IF Exists(bucket, RawPath(loc[p].process_date))
       THEN /\ Return(p, NoNewData)
            /\ UNCHANGED <<bucket, run>>
       ELSE /\ pc' = [pc EXCEPT ![p] = "pl_fetch"]
            /\ loc' = [loc EXCEPT ![p].state.source_updated_at = loc[p].process_date,
                                  ![p].state.last_fetched_at = clock]
            /\ bucket' = UpdateState(bucket, loc'[p].state)
            /\ run' = Logged(p, "upload", MetadataPath)
            /\ UNCHANGED outcome
    /\ UNCHANGED <<clock, overlap, lastRA, prevRA, seen, source>>

\* raw_blob.exists(): "No new data", else the state object is prepared.
PL_Check(p) ==
    /\ pc[p] = "pl_check"
    /\ IF Exists(bucket, RawPath(loc[p].process_date))
       THEN Return(p, NoNewData)
       ELSE /\ pc' = [pc EXCEPT ![p] = "pl_fetch"]
            /\ loc' = [loc EXCEPT ![p].state.source_updated_at = loc[p].process_date,
                                  ![p].state.last_fetched_at = clock]
            /\ UNCHANGED outcome
    /\ UNCHANGED <<bucket, clock, overlap, run, lastRA, prevRA, seen, source>>

\* fetch_jobs(raw_blob): the full record set, uploaded to raw_blob.
FetchJobs(b, raw_path, data) == Upload(b, raw_path, [data |-> data])

PL_Fetch(p) ==
    /\ pc[p] = "pl_fetch"
    /\ \E d \in Datasets :
          bucket' = FetchJobs(bucket, RawPath(loc[p].process_date), d)
    /\ run' = Logged(p, "upload", RawPath(loc[p].process_date))
    /\ pc' = [pc EXCEPT ![p] = "pl_process"]
    /\ lastRA' = NoView
    /\ prevRA' = NoView
    /\ seen' = [seen EXCEPT !.fetched = @ \cup {loc[p].process_date_str}]
    /\ UNCHANGED <<loc, outcome, clock, overlap, source>>

\* process_jobs: read_json of the raw blob, the transform, the upload.
ProcessJobs(b, raw_path, processed_path) ==
    Upload(b, processed_path, Transform(b[raw_path]))

PL_Process(p) ==
    /\ pc[p] = "pl_process"
    /\ Exists(bucket, RawPath(loc[p].process_date))
    /\ bucket' = ProcessJobs(bucket, RawPath(loc[p].process_date),
                             ParquetPath(loc[p].process_date))
    /\ run' = Logged(p, "upload", ParquetPath(loc[p].process_date))
    /\ loc' = [loc EXCEPT ![p].state.last_processed_at = clock]
    /\ pc' = [pc EXCEPT ![p] = "pl_history"]
    /\ UNCHANGED <<outcome, clock, overlap, lastRA, prevRA, seen, source>>

\* update_jobs_history: jobs_history.parquet rebuilt from processed/*.parquet
\* (read_parquet raises when the glob matches no file).
UpdateJobsHistory(b) == Upload(b, HistoryPath, HistoryOf(b))

\* update_jobs_history creating the aggregate only when there is none yet.
PL_UpdateHistory_CreateOnly(p) ==
    /\ pc[p] = "pl_history"
    /\ ListBlobs(bucket, "processed") # {}
    /\ bucket' = IF Exists(bucket, HistoryPath) THEN bucket
                 ELSE UpdateJobsHistory(bucket)
    /\ run' = Logged(p, "upload", HistoryPath)
    /\ pc' = [pc EXCEPT ![p] = "pl_update_state"]
    /\ UNCHANGED <<loc, outcome, clock, overlap, lastRA, prevRA, seen, source>>

PL_UpdateHistory(p) ==
    /\ pc[p] = "pl_history"
    /\ ListBlobs(bucket, "processed") # {}
    /\ bucket' = UpdateJobsHistory(bucket)
    /\ run' = Logged(p, "upload", HistoryPath)
    /\ pc' = [pc EXCEPT ![p] = "pl_update_state"]
    /\ UNCHANGED <<loc, outcome, clock, overlap, lastRA, prevRA, seen, source>>

\* update_state(bucket, state); return "OK", 200
PL_UpdateState(p) ==
    /\ pc[p] = "pl_update_state"
    /\ bucket' = UpdateState(bucket, loc[p].state)
    /\ run' = Logged(p, "upload", MetadataPath)
    /\ Return(p, OK)
    /\ seen' = [seen EXCEPT !.recorded = @ \cup {loc[p].process_date}]
    /\ UNCHANGED <<clock, overlap, lastRA, prevRA, source>>

ProcessLatest(p) ==
    \/ PL_GetState(p)
    \/ PL_Probe(p)
    \/ PL_ProbeNone(p)
    \/ PL_Check(p)
    \/ PL_Fetch(p)
    \/ PL_Process(p)
    \/ PL_UpdateHistory(p)
    \/ PL_UpdateState(p)

----------------------------------------------------------------------------
(* reprocess_all *)

RA_GetState(p) == GetState(p, "ra_get_state", "ra_list_raw")

\* RA_ListRaw keeping only the snapshots that have no processed artifact.
RA_ListRaw_OnlyUnprocessed(p) ==
    /\ pc[p] = "ra_list_raw"
    /\ LET todo == {k \in ListBlobs(bucket, "raw") :
                       ~Exists(bucket, ParquetPath(k[2]))} IN
         IF todo = {}
         THEN Return(p, NoRawFiles)
         ELSE /\ pc' = [pc EXCEPT ![p] = "ra_list_processed"]
              /\ loc' = [loc EXCEPT ![p].raw_blobs = Sorted(todo)]
              /\ UNCHANGED outcome
    /\ UNCHANGED <<bucket, clock, overlap, run, lastRA, prevRA, seen, source>>

\* raw_blobs = list(bucket.list_blobs(prefix="raw/")); the loop below walks
\* them sorted by name.
RA_ListRaw(p) ==
    /\ pc[p] = "ra_list_raw"
    /\ IF ListBlobs(bucket, "raw") = {}
       THEN Return(p, NoRawFiles)
       ELSE /\ pc' = [pc EXCEPT ![p] = "ra_list_processed"]
            /\ loc' = [loc EXCEPT ![p].raw_blobs = Sorted(ListBlobs(bucket, "raw"))]
            /\ UNCHANGED outcome
    /\ UNCHANGED <<bucket, clock, overlap, run, lastRA, prevRA, seen, source>>

\* RA_ListProcessed with list_blobs() called without the prefix.
RA_ListProcessed_NoPrefix(p) ==
    /\ pc[p] = "ra_list_processed"
    /\ LET blobs == Sorted(DOMAIN bucket) IN
         /\ loc' = [loc EXCEPT ![p].processed_blobs = blobs]
         /\ pc' = [pc EXCEPT ![p] = IF blobs = <<>> THEN "ra_process" ELSE "ra_delete"]
    /\ UNCHANGED <<bucket, outcome, clock, overlap, run, lastRA, prevRA, seen, source>>

\* processed_blobs = list(bucket.list_blobs(prefix="processed/"))
RA_ListProcessed(p) ==
    /\ pc[p] = "ra_list_processed"
    /\ LET blobs == Sorted(ListBlobs(bucket, "processed")) IN
         /\ loc' = [loc EXCEPT ![p].processed_blobs = blobs]
         /\ pc' = [pc EXCEPT ![p] = IF blobs = <<>> THEN "ra_process" ELSE "ra_delete"]
    /\ UNCHANGED <<bucket, outcome, clock, overlap, run, lastRA, prevRA, seen, source>>

\* for blob in processed_blobs: blob.delete()   (one blob per step; delete
\* raises NotFound on a blob that is gone)
RA_Delete(p) ==
    /\ pc[p] = "ra_delete"
    /\ LET blob == Head(loc[p].processed_blobs)
           rest == Tail(loc[p].processed_blobs) IN
         /\ Exists(bucket, blob)
         /\ bucket' = Delete(bucket, blob)
         /\ run' = Logged(p, "delete", blob)
         /\ loc' = [loc EXCEPT ![p].processed_blobs = rest]
         /\ pc' = [pc EXCEPT ![p] = IF rest = <<>> THEN "ra_process" ELSE "ra_delete"]
    /\ UNCHANGED <<outcome, clock, overlap, lastRA, prevRA, seen, source>>

\* raw_blob.name.replace("raw/", "").replace(".json", "")
TimestampStr(name) == name[2]

\* for raw_blob in sorted(raw_blobs, ...): process_jobs(...)   (one per step)
RA_Process(p) ==
    /\ pc[p] = "ra_process"
    /\ LET raw_blob == Head(loc[p].raw_blobs)
           rest == Tail(loc[p].raw_blobs)
           timestamp_str == TimestampStr(raw_blob) IN
         /\ Exists(bucket, raw_blob)
         /\ bucket' = ProcessJobs(bucket, raw_blob, ParquetPath(timestamp_str))
         /\ run' = Logged(p, "upload", ParquetPath(timestamp_str))
         /\ loc' = [loc EXCEPT ![p].raw_blobs = rest,
                               ![p].latest_timestamp = timestamp_str]
         /\ pc' = [pc EXCEPT ![p] = IF rest = <<>> THEN "ra_rebuild" ELSE "ra_process"]
    /\ UNCHANGED <<outcome, clock, overlap, lastRA, prevRA, seen, source>>

\* rebuild_jobs_history: delete jobs_history.parquet if it exists ...
RA_RebuildDelete(p) ==
    /\ pc[p] = "ra_rebuild"
    /\ IF Exists(bucket, HistoryPath)
       THEN /\ bucket' = Delete(bucket, HistoryPath)
            /\ run' = Logged(p, "delete", HistoryPath)
       ELSE UNCHANGED <<bucket, run>>
    /\ pc' = [pc EXCEPT ![p] = "ra_history"]
    /\ UNCHANGED <<loc, outcome, clock, overlap, lastRA, prevRA, seen, source>>

\* ... then update_jobs_history(bucket)
RA_RebuildUpdate(p) ==
    /\ pc[p] = "ra_history"
    /\ ListBlobs(bucket, "processed") # {}
    /\ bucket' = UpdateJobsHistory(bucket)
    /\ run' = Logged(p, "upload", HistoryPath)
    /\ pc' = [pc EXCEPT ![p] = "ra_update_state"]
    /\ UNCHANGED <<loc, outcome, clock, overlap, lastRA, prevRA, seen, source>>

\* ReprocessedState with the wall clock passed as source_updated_at.
ReprocessedState_NowAsSource(existing_state, latest_timestamp, now) ==
    [source_updated_at |-> now,
     last_fetched_at |-> existing_state.last_fetched_at,
     last_processed_at |-> now,
     record_count |-> 0]

\* The state written by reprocess_all (lines 185-190).
ReprocessedState(existing_state, latest_timestamp, now) ==
    [source_updated_at |-> latest_timestamp,
     last_fetched_at |-> existing_state.last_fetched_at,
     last_processed_at |-> now,
     record_count |-> 0]

\* if latest_timestamp: update_state(...); return "Reprocessed n files", 200
RA_UpdateState(p) ==
    /\ pc[p] = "ra_update_state"
    /\ IF loc[p].latest_timestamp # 0
       THEN /\ bucket' = UpdateState(bucket,
                            ReprocessedState(loc[p].state, loc[p].latest_timestamp, clock))
            /\ run' = Logged(p, "upload", MetadataPath)
       ELSE UNCHANGED <<bucket, run>>
    /\ Return(p, Reprocessed)
    /\ prevRA' = lastRA
    /\ lastRA' = <<StoreView(bucket')>>
    /\ UNCHANGED <<clock, overlap, seen, source>>

ReprocessAll(p) ==
    \/ RA_GetState(p)
    \/ RA_ListRaw(p)
    \/ RA_ListProcessed(p)
    \/ RA_Delete(p)
    \/ RA_Process(p)
    \/ RA_RebuildDelete(p)
    \/ RA_RebuildUpdate(p)
    \/ RA_UpdateState(p)

----------------------------------------------------------------------------
(* The pipeline under a trigger that serializes the runs *)

Next ==
    \E p \in Procs :
        \/ StartLatest(p)
        \/ StartReprocessAll(p)
        \/ ProcessLatest(p)
        \/ ReprocessAll(p)
        \/ Raise(p)

Spec == Init /\ [][Next]_vars

\* The first run, against a dataset that stamps sub-second process_date
\* values.
InitSubSeconds ==
    /\ bucket = EmptyBucket
    /\ pc = [p \in Procs |-> "idle"]
    /\ loc = [p \in Procs |-> InitLoc]
    /\ outcome = [p \in Procs |-> NoResponse]
    /\ clock = 0
    /\ overlap = FALSE
    /\ run = [p \in Procs |-> NoRun]
    /\ lastRA = NoView
    /\ prevRA = NoView
    /\ seen = [recorded |-> {}, fetched |-> {}]
    /\ source = SubSeconds

SpecSubSeconds == InitSubSeconds /\ [][Next]_vars

\* The store and the persisted state after one complete process_latest run
\* for version 1, made at time 1.
FirstRunState ==
    [EmptyState EXCEPT !.source_updated_at = 1, !.last_fetched_at = 1,
                       !.last_processed_at = 1]
FirstRunStore ==
    UpdateState(
        UpdateJobsHistory(
            ProcessJobs(FetchJobs(EmptyBucket, RawPath(1), 1),
                        RawPath(1), ParquetPath(1))),
        FirstRunState)

\* After that first run, in a deployment that either serializes its runs or
\* lets them overlap.
InitAnySchedule ==
    /\ bucket = FirstRunStore
    /\ pc = [p \in Procs |-> "idle"]
    /\ loc = [p \in Procs |-> InitLoc]
    /\ outcome = [p \in Procs |-> NoResponse]
    /\ clock = 1
    /\ overlap \in BOOLEAN
    /\ run = [p \in Procs |-> NoRun]
    /\ lastRA = NoView
    /\ prevRA = NoView
    /\ seen = [recorded |-> {1}, fetched |-> {[sec |-> 1, frac |-> 0]}]
    /\ source = WholeSeconds

SpecAnySchedule == InitAnySchedule /\ [][Next]_vars

\* The same pipeline on a bucket whose metadata.json may be replaced, between
\* runs, by a text that is no PipelineState (spec section 7 (e); the
\* metadata.json written by fetch.py is one such text).
CorruptMetadata ==
    /\ \A p \in Procs : pc[p] = "idle"
    /\ ~(Exists(bucket, MetadataPath) /\ bucket[MetadataPath] = Garbled)
    /\ bucket' = Upload(bucket, MetadataPath, Garbled)
    /\ UNCHANGED <<pc, loc, outcome, clock, overlap, run, lastRA, prevRA, seen, source>>

NextCorrupt == Next \/ CorruptMetadata

SpecCorrupt == Init /\ [][NextCorrupt]_vars

----------------------------------------------------------------------------
(* What the properties read *)

\* The source version persisted in metadata.json (0: none).
SourceVersion(b) ==
    IF Exists(b, MetadataPath) /\ Parses(b[MetadataPath])
    THEN FromJson(b[MetadataPath]).source_updated_at ELSE 0

\* The names a run has written or deleted, in order.
Uploads(p) == {i \in DOMAIN run[p].log : run[p].log[i][1] = "upload"}
Deletes(p) == {i \in DOMAIN run[p].log : run[p].log[i][1] = "delete"}
UploadsOf(p, k) == {i \in Uploads(p) : run[p].log[i][2] = k}

\* A run of process_latest that has returned.
ReturnedLatest(p) == pc[p] = "idle" /\ run[p].kind = "latest"
ReturnedReprocess(p) == pc[p] = "idle" /\ run[p].kind = "reprocess_all"

----------------------------------------------------------------------------
(* fetch.py: fetch_all_jobs *)

PAGE_SIZE == 10000
MaxPages == 2

\* The record counts tried: around every multiple of PAGE_SIZE.
Counts ==
    {k * PAGE_SIZE + r : k \in 0..MaxPages, r \in {0, 1, PAGE_SIZE - 1}}

\* GET /resource/<id>.json?$limit=..&$offset=.. on a dataset of n records:
\* the records at offset .. offset + limit - 1 that exist, named by their
\* position.
Page(n, limit, offset) ==
    LET len == IF n - offset < limit THEN n - offset ELSE limit
    IN [i \in 1..(IF len < 0 THEN 0 ELSE len) |-> offset + i - 1]

\* The value a function returned, where the other runs have main()'s response.
Result(value) == [msg |-> "", error |-> "", status |-> 0, value |-> value]

FetchAllLoc == [all_records |-> <<>>, offset |-> 0]

\* fetch_all_jobs(auth) is called: all_records = [], offset = 0.
FA_Start(p) ==
    /\ pc[p] = "idle"
    /\ clock < MaxRuns
    /\ p = "a"
    /\ clock' = clock + 1
    /\ pc' = [pc EXCEPT ![p] = "fa_request"]
    /\ loc' = [loc EXCEPT ![p] = FetchAllLoc]
    /\ outcome' = [outcome EXCEPT ![p] = NoResponse]
    /\ run' = [run EXCEPT ![p] = [kind |-> "fetch_all_jobs", start |-> bucket,
                                  log |-> <<>>, probed |-> 0]]
    /\ UNCHANGED <<bucket, overlap, lastRA, prevRA, seen, source>>

\* FA_Request leaving the loop on a page of at most PAGE_SIZE records.
FA_Request_BreakOnFull(p) ==
    /\ pc[p] = "fa_request"
    /\ LET batch == Page(source.records, PAGE_SIZE, loc[p].offset)
           all_records == loc[p].all_records \o batch IN
         IF Len(batch) <= PAGE_SIZE
         THEN Return(p, Result(all_records))
         ELSE /\ loc' = [loc EXCEPT ![p].all_records = all_records,
                                    ![p].offset = @ + PAGE_SIZE]
              /\ UNCHANGED <<pc, outcome>>
    /\ run' = Logged(p, "get", loc[p].offset)
    /\ UNCHANGED <<bucket, clock, overlap, lastRA, prevRA, seen, source>>

\* One turn of the loop: a page is requested (a failed request is Raise) and
\* appended; a short page ends the loop and all_records is returned.
FA_Request(p) ==
    /\ pc[p] = "fa_request"
    /\ LET batch == Page(source.records, PAGE_SIZE, loc[p].offset)
           all_records == loc[p].all_records \o batch IN
         IF Len(batch) < PAGE_SIZE
         THEN Return(p, Result(all_records))
         ELSE /\ loc' = [loc EXCEPT ![p].all_records = all_records,
                                    ![p].offset = @ + PAGE_SIZE]
              /\ UNCHANGED <<pc, outcome>>
    /\ run' = Logged(p, "get", loc[p].offset)
    /\ UNCHANGED <<bucket, clock, overlap, lastRA, prevRA, seen, source>>

InitPages ==
    /\ bucket = EmptyBucket
    /\ pc = [p \in Procs |-> "idle"]
    /\ loc = [p \in Procs |-> InitLoc]
    /\ outcome = [p \in Procs |-> NoResponse]
    /\ clock = 0
    /\ overlap = FALSE
    /\ run = [p \in Procs |-> NoRun]
    /\ lastRA = NoView
    /\ prevRA = NoView
    /\ seen = [recorded |-> {}, fetched |-> {}]
    /\ source \in [records : Counts, fracs : {{0}}]

NextPages == \E p \in Procs : FA_Start(p) \/ FA_Request(p) \/ Raise(p)

SpecPages == InitPages /\ [][NextPages]_vars

----------------------------------------------------------------------------
(* fetch.py: fetch_jobs(bucket_name), the fetch that keeps its own
   metadata.json *)

NoPath == <<"none", 0>>

FetchJobsLoc ==
    [metadata |-> [dataUpdatedAt |-> 0], data_updated_at |-> 0, jobs |-> 0,
     now |-> 0, raw_path |-> NoPath]

\* fetch_jobs(bucket_name) is called.
LF_Start(p) ==
    /\ pc[p] = "idle"
    /\ clock < MaxRuns
    /\ p = "a"
    /\ clock' = clock + 1
    /\ pc' = [pc EXCEPT ![p] = "lf_metadata"]
    /\ loc' = [loc EXCEPT ![p] = FetchJobsLoc]
    /\ outcome' = [outcome EXCEPT ![p] = NoResponse]
    /\ run' = [run EXCEPT ![p] = [kind |-> "fetch_jobs", start |-> bucket,
                                  log |-> <<>>, probed |-> 0]]
    /\ UNCHANGED <<bucket, overlap, lastRA, prevRA, seen, source>>

\* metadata = get_dataset_metadata(); data_updated_at = its dataUpdatedAt
LF_Metadata(p) ==
    /\ pc[p] = "lf_metadata"
    /\ \E u \in Versions :
          /\ loc' = [loc EXCEPT ![p].metadata = [dataUpdatedAt |-> u],
                                ![p].data_updated_at = u]
          /\ run' = [run EXCEPT ![p].probed = u]
    /\ pc' = [pc EXCEPT ![p] = "lf_check"]
    /\ UNCHANGED <<bucket, outcome, clock, overlap, lastRA, prevRA, seen, source>>

\* get_last_metadata: None (<<>>) when metadata.json is absent.
GetLastMetadata(b) ==
    IF ~Exists(b, MetadataPath) THEN <<>> ELSE <<b[MetadataPath]>>

\* if last_metadata and last_metadata.get("dataUpdatedAt") == data_updated_at:
\*     return None
LF_Check(p) ==
    /\ pc[p] = "lf_check"
    /\ LET last_metadata == GetLastMetadata(bucket) IN
         IF /\ last_metadata # <<>>
            /\ last_metadata[1].dataUpdatedAt = loc[p].data_updated_at
         THEN Return(p, Result(NoPath))
         ELSE /\ pc' = [pc EXCEPT ![p] = "lf_fetch"]
              /\ UNCHANGED <<loc, outcome>>
    /\ UNCHANGED <<bucket, clock, overlap, run, lastRA, prevRA, seen, source>>

\* jobs = fetch_all_jobs(auth); now = datetime.now(timezone.utc).isoformat();
\* raw_path = f"raw/{now}.json".  The record set is named by a number, the
\* time is the number of the call.
LF_Fetch(p) ==
    /\ pc[p] = "lf_fetch"
    /\ \E d \in Datasets :
          loc' = [loc EXCEPT ![p].jobs = d, ![p].now = clock,
                             ![p].raw_path = RawPath(clock)]
    /\ pc' = [pc EXCEPT ![p] = "lf_upload_raw"]
    /\ UNCHANGED <<bucket, outcome, clock, overlap, run, lastRA, prevRA, seen, source>>

\* raw_blob.upload_from_string(json.dumps({"metadata": .., "data": jobs}))
LF_UploadRaw(p) ==
    /\ pc[p] = "lf_upload_raw"
    /\ bucket' = Upload(bucket, loc[p].raw_path,
                        [metadata |-> loc[p].metadata, data |-> loc[p].jobs])
    /\ run' = Logged(p, "upload", loc[p].raw_path)
    /\ pc' = [pc EXCEPT ![p] = "lf_upload_metadata"]
    /\ UNCHANGED <<loc, outcome, clock, overlap, lastRA, prevRA, seen, source>>

\* metadata_blob.upload_from_string(json.dumps({...})); return raw_path
LF_UploadMetadata(p) ==
    /\ pc[p] = "lf_upload_metadata"
    /\ bucket' = Upload(bucket, MetadataPath,
                        [dataUpdatedAt |-> loc[p].data_updated_at,
                         fetchedAt |-> loc[p].now,
                         recordCount |-> loc[p].jobs,
                         rawPath |-> loc[p].raw_path])
    /\ run' = Logged(p, "upload", MetadataPath)
    /\ Return(p, Result(loc[p].raw_path))
    /\ UNCHANGED <<clock, overlap, lastRA, prevRA, seen, source>>

LegacyFetch(p) ==
    \/ LF_Metadata(p)
    \/ LF_Check(p)
    \/ LF_Fetch(p)
    \/ LF_UploadRaw(p)
    \/ LF_UploadMetadata(p)

NextLegacy == \E p \in Procs : LF_Start(p) \/ LegacyFetch(p) \/ Raise(p)

SpecLegacy == Init /\ [][NextLegacy]_vars

----------------------------------------------------------------------------
(* C1 *)

\* C1 (monotonicity): no step of any run moves the source version persisted
\* in metadata.json backward.
C1_Monotonic == [][SourceVersion(bucket') >= SourceVersion(bucket)]_vars

(* C2 *)

\* C2 (no-op on stale version): a process_latest run that started with source
\* version T persisted and probed a version <= T writes nothing, and when it
\* returns a 200 it is "No new data".
C2_StaleNoOp ==
    \A p \in Procs :
        (/\ run[p].kind = "latest"
         /\ run[p].probed # 0
         /\ SourceVersion(run[p].start) # 0
         /\ run[p].probed <= SourceVersion(run[p].start))
        => /\ run[p].log = <<>>
           /\ (pc[p] = "idle" /\ outcome[p].status = 200) => outcome[p] = NoNewData

(* C3 *)

\* C3 (one artifact pair per version under retry): once a process_latest run
\* that probed v returns without error, raw/v and processed/v both exist.
C3_PairAfterReturn ==
    \A p \in Procs :
        (ReturnedLatest(p) /\ run[p].probed # 0 /\ outcome[p].status = 200)
        => /\ Exists(bucket, RawPath(run[p].probed))
           /\ Exists(bucket, ParquetPath(run[p].probed))

(* C4 *)

\* C4 (the idempotency guard resumes): a process_latest run that started with
\* raw/v present and processed/v missing, v the probed version, and returned
\* without error has not fetched again, has produced processed/v and has
\* recorded v in metadata.json.
C4_GuardResumes ==
    \A p \in Procs :
        (/\ ReturnedLatest(p)
         /\ run[p].probed # 0
         /\ outcome[p].status = 200
         /\ Exists(run[p].start, RawPath(run[p].probed))
         /\ ~Exists(run[p].start, ParquetPath(run[p].probed)))
        => /\ UploadsOf(p, RawPath(run[p].probed)) = {}
           /\ UploadsOf(p, ParquetPath(run[p].probed)) # {}
           /\ UploadsOf(p, HistoryPath) # {}
           /\ SourceVersion(bucket) = run[p].probed

(* C5 *)

MetadataOf(b) == IF Exists(b, MetadataPath) THEN <<b[MetadataPath]>> ELSE <<>>

\* The writes of a complete process_latest run for version v, in order.
FullRunLog(v) ==
    << <<"upload", RawPath(v)>>, <<"upload", ParquetPath(v)>>,
       <<"upload", HistoryPath>>, <<"upload", MetadataPath>> >>

\* C5 (no partial state on failure): a process_latest run writes metadata.json
\* at most once, and only as the last of the four writes raw, processed,
\* aggregate, state; while it has not written it, and after it has failed,
\* metadata.json is what it was when the run started.
C5_NoPartialState ==
    \A p \in Procs :
        run[p].kind = "latest" =>
            /\ Cardinality(UploadsOf(p, MetadataPath)) <= 1
            /\ UploadsOf(p, MetadataPath) = {}
                  => MetadataOf(bucket) = MetadataOf(run[p].start)
            /\ UploadsOf(p, MetadataPath) # {}
                  => run[p].log = FullRunLog(run[p].probed)
            /\ (pc[p] = "idle" /\ outcome[p].status = 500)
                  => UploadsOf(p, MetadataPath) = {}

\* A run that failed at the transform, after the raw write, on a bucket that
\* already had a persisted state.
C5_Witness ==
    \E p \in Procs :
        /\ ReturnedLatest(p)
        /\ outcome[p] = Error("pl_process")
        /\ run[p].log = << <<"upload", RawPath(run[p].probed)>> >>
        /\ Exists(run[p].start, MetadataPath)

(* C6 *)

\* C6 (aggregate failure is a degraded success): a process_latest run that
\* stopped because update_jobs_history failed, after raw and processed were
\* written, has recorded the new version in metadata.json, and its response
\* is neither the plain OK nor the response of a run that failed earlier.
C6_DegradedSuccess ==
    \A p \in Procs :
        (/\ ReturnedLatest(p)
         /\ run[p].probed # 0
         /\ run[p].log = << <<"upload", RawPath(run[p].probed)>>,
                            <<"upload", ParquetPath(run[p].probed)>> >>)
        => /\ SourceVersion(bucket) = run[p].probed
           /\ outcome[p] # OK
           /\ outcome[p] \notin {Error(e) : e \in {"pl_get_state", "pl_probe",
                                                   "pl_check", "pl_fetch", "pl_process"}}

(* C7 *)

\* C7 (corrupt state is first run): no run ends in the error response
\* because metadata.json failed to parse.
C7_CorruptIsFirstRun ==
    \A p \in Procs : outcome[p].error # "from_json"

(* C8 *)

\* C8 (deletion ownership): no step removes a raw snapshot; a step that
\* removes any blob is a step of reprocess_all (its wipe of processed/ or
\* its rebuild of the aggregate); a process_latest run deletes nothing.
C8_DeletionOwnership ==
    [][/\ ListBlobs(bucket, "raw") \subseteq ListBlobs(bucket', "raw")
       /\ \A k \in DOMAIN bucket \ DOMAIN bucket' :
            \E p \in Procs :
               /\ run[p].kind = "reprocess_all"
               /\ \/ pc[p] = "ra_delete" /\ k[1] = "processed"
                  \/ pc[p] = "ra_rebuild" /\ k = HistoryPath
       /\ \A p \in Procs : run'[p].kind = "latest" => Deletes(p)' = {}]_vars

\* reprocess_all has wiped processed artifacts and the raw snapshots are there.
C8_Witness ==
    \E p \in Procs :
        /\ pc[p] = "ra_process"
        /\ \E i \in Deletes(p) : run[p].log[i][2][1] = "processed"
        /\ ListBlobs(bucket, "processed") = {}
        /\ Cardinality(ListBlobs(bucket, "raw")) >= 2

(* C9 *)

SetMax(S) == CHOOSE x \in S : \A y \in S : y <= x

\* The positions of the log that upload a processed artifact.
ProcessedUploads(p) == {i \in Uploads(p) : run[p].log[i][2][1] = "processed"}

StateAt(b) == IF Exists(b, MetadataPath) THEN FromJson(b[MetadataPath]) ELSE EmptyState

\* C9 (reprocess postcondition): after reprocess_all returns "Reprocessed" on
\* the raw set R it listed, the processed artifacts are exactly one per
\* version of R, each the transform of its raw snapshot, written once and in
\* ascending version order; the aggregate holds the rows of all of them;
\* metadata.json records the greatest version of R, last_processed_at is the
\* time of this run and last_fetched_at is the one read at the start.
C9_ReprocessPostcondition ==
    \A p \in Procs :
        (ReturnedReprocess(p) /\ outcome[p] = Reprocessed) =>
            LET R == {k[2] : k \in ListBlobs(run[p].start, "raw")}
                log == run[p].log
            IN /\ R # {}
               /\ ListBlobs(bucket, "processed") = {ParquetPath(v) : v \in R}
               /\ \A v \in R :
                     /\ bucket[ParquetPath(v)] = Transform(bucket[RawPath(v)])
                     /\ Cardinality(UploadsOf(p, ParquetPath(v))) = 1
               /\ \A i, j \in ProcessedUploads(p) :
                     i < j => log[i][2][2] < log[j][2][2]
               /\ Exists(bucket, HistoryPath)
               /\ bucket[HistoryPath].history =
                     [g \in {Transform(bucket[RawPath(v)]).rows : v \in R} |->
                        Cardinality({v \in R : Transform(bucket[RawPath(v)]).rows = g})]
               /\ Exists(bucket, MetadataPath)
               /\ Parses(bucket[MetadataPath])
               /\ StateAt(bucket).source_updated_at = SetMax(R)
               /\ StateAt(bucket).last_processed_at = clock
               /\ StateAt(bucket).last_processed_at > StateAt(run[p].start).last_processed_at
               /\ StateAt(bucket).last_fetched_at = StateAt(run[p].start).last_fetched_at

\* reprocess_all completed over two raw snapshots, one of them without a
\* processed artifact at the start, on a bucket with a persisted state.
C9_Witness ==
    \E p \in Procs :
        /\ ReturnedReprocess(p)
        /\ outcome[p] = Reprocessed
        /\ Cardinality(ListBlobs(run[p].start, "raw")) >= 2
        /\ Cardinality(ListBlobs(run[p].start, "processed")) = 1
        /\ StateAt(run[p].start).last_fetched_at # 0

(* C10 *)

\* C10 (idempotent reprocess): when reprocess_all completes twice with no
\* raw snapshot added in between, the processed artifacts, the aggregate and
\* the persisted source version after the second run are those after the
\* first.
C10_IdempotentReprocess ==
    prevRA # NoView => lastRA = prevRA

\* Two completed reprocess_all runs over the same raw snapshots.
C10_Witness ==
    /\ prevRA # NoView
    /\ \E p \in Procs : ReturnedReprocess(p) /\ outcome[p] = Reprocessed
    /\ ListBlobs(bucket, "processed") # {}

(* C11 *)

\* The aggregate computed from the raw snapshots of b alone: the rows of the
\* transform of every snapshot, with multiplicity.
RebuiltFromRaw(b) ==
    LET raws == ListBlobs(b, "raw")
        groups == {Transform(b[k]).rows : k \in raws}
    IN [history |->
          [g \in groups |-> Cardinality({k \in raws : Transform(b[k]).rows = g})]]

\* The rows of the processed artifacts of b, each with the number of
\* artifacts that hold it.
ProcessedRows(b) ==
    LET files == ListBlobs(b, "processed")
    IN [g \in {b[k].rows : k \in files} |->
          Cardinality({k \in files : b[k].rows = g})]

\* Every raw snapshot has its processed artifact.
AllFolded(b) == \A k \in ListBlobs(b, "raw") : Exists(b, ParquetPath(k[2]))

\* C11 (rebuild equivalence): after a process_latest run returned "OK" and
\* after a reprocess_all run returned "Reprocessed", the aggregate holds the
\* rows of the processed artifacts then present, whatever the persisted state
\* and the order in which they were written; when every raw snapshot has been
\* folded in, both leave the same aggregate, the one computed from the raw
\* snapshots alone.
C11_RebuildEquivalence ==
    \A p \in Procs :
        (pc[p] = "idle" /\ outcome[p] \in {OK, Reprocessed}) =>
            /\ Exists(bucket, HistoryPath)
            /\ bucket[HistoryPath].history = ProcessedRows(bucket)
            /\ AllFolded(bucket) => bucket[HistoryPath] = RebuiltFromRaw(bucket)

\* A process_latest run returned "OK" on three folded-in snapshots that were
\* not written in version order: the newest one is not the recorded version.
C11_Witness ==
    \E p \in Procs :
        /\ ReturnedLatest(p)
        /\ outcome[p] = OK
        /\ AllFolded(bucket)
        /\ Cardinality(ListBlobs(bucket, "raw")) = 3
        /\ SourceVersion(bucket) < SetMax({k[2] : k \in ListBlobs(bucket, "raw")})

(* C12 *)

\* C12 (incremental success postcondition): a process_latest run that starts
\* on the empty store and returns 200 returns "OK", and leaves exactly the raw
\* snapshot and the processed artifact of the probed version, the aggregate
\* with that artifact's rows and metadata.json recording that version; after
\* every process_latest run that returned "OK" the aggregate holds the rows of
\* all the processed artifacts then present.
C12_IncrementalPostcondition ==
    \A p \in Procs :
        (ReturnedLatest(p) /\ outcome[p].status = 200) =>
            LET v == run[p].probed
            IN /\ outcome[p] = OK =>
                     /\ Exists(bucket, HistoryPath)
                     /\ bucket[HistoryPath].history = ProcessedRows(bucket)
               /\ run[p].start = EmptyBucket =>
                     /\ outcome[p] = OK
                     /\ v \in Versions
                     /\ DOMAIN bucket = {RawPath(v), ParquetPath(v),
                                         HistoryPath, MetadataPath}
                     /\ bucket[ParquetPath(v)] = Transform(bucket[RawPath(v)])
                     /\ bucket[HistoryPath].history =
                           [g \in {bucket[ParquetPath(v)].rows} |-> 1]
                     /\ Parses(bucket[MetadataPath])
                     /\ SourceVersion(bucket) = v
                     /\ run[p].log = FullRunLog(v)

\* The first run on the empty store returned "OK".
C12_Witness ==
    \E p \in Procs :
        /\ ReturnedLatest(p)
        /\ outcome[p] = OK
        /\ run[p].start = EmptyBucket
        /\ Cardinality(DOMAIN bucket) = 4

(* C13 *)

\* C13 (repeat of a recorded version is a no-op): once a process_latest run
\* has returned "OK" for a version, a later process_latest run whose probe
\* returns that version stops at the existence check: it writes and deletes
\* nothing, and when it returns 200 it returns "No new data".
C13_RepeatIsNoOp ==
    \A p \in Procs :
        (/\ run[p].kind = "latest"
         /\ run[p].probed \in seen.recorded
         /\ UploadsOf(p, MetadataPath) = {}) =>
            /\ pc[p] \in {"pl_check", "idle"}
            /\ run[p].log = <<>>
            /\ bucket = run[p].start
            /\ (pc[p] = "idle" /\ outcome[p].status = 200) => outcome[p] = NoNewData

\* A run returned "No new data" for a version recorded two runs earlier,
\* after another version had been recorded in between.
C13_Witness ==
    \E p \in Procs :
        /\ ReturnedLatest(p)
        /\ outcome[p] = NoNewData
        /\ run[p].probed \in seen.recorded
        /\ SourceVersion(bucket) # run[p].probed

(* C14 *)

\* A step in which run p uploads to k.
UploadsTo(p, k) ==
    /\ Len(run'[p].log) = Len(run[p].log) + 1
    /\ run'[p].log[Len(run'[p].log)] = <<"upload", k>>

\* C14 (raw snapshots are write-once): in serialized runs, any of which may
\* abort at any step, no step uploads to a raw path that holds an object, and
\* the object at a raw path stays there with its content.
C14_RawWriteOnce ==
    [][\A k \in ListBlobs(bucket, "raw") :
          /\ Exists(bucket', k)
          /\ bucket'[k] = bucket[k]
          /\ \A p \in Procs : ~UploadsTo(p, k)]_vars

\* A run probed a version whose raw snapshot was left by a run that aborted
\* before the processed artifact was written, and returned "No new data".
C14_Witness ==
    \E p \in Procs :
        /\ ReturnedLatest(p)
        /\ outcome[p] = NoNewData
        /\ Exists(bucket, RawPath(run[p].probed))
        /\ ~Exists(bucket, ParquetPath(run[p].probed))

(* C15 *)

\* What a reprocess_all that is never interrupted leaves, as a function of
\* the raw snapshots of b alone.
UninterruptedView(b) ==
    LET R == {k[2] : k \in ListBlobs(b, "raw")}
    IN [processed |-> [k \in {ParquetPath(v) : v \in R} |->
                          Transform(b[RawPath(k[2])])],
        history |-> <<RebuiltFromRaw(b)>>,
        source_updated_at |-> SetMax(R)]

\* A reprocess_all run that returned 500 from the step named by `steps`.
AbortedIn(p, steps) ==
    /\ ReturnedReprocess(p)
    /\ outcome[p].status = 500
    /\ outcome[p].error \in steps

SomeRawUnprocessed(b) ==
    \E k \in ListBlobs(b, "raw") : ~Exists(b, ParquetPath(k[2]))

\* The claim as stated: a reprocess_all that aborts during the wipe (after a
\* delete), a transform or the aggregate rebuild leaves metadata.json as it
\* was and some version without a processed artifact, and a completed
\* reprocess_all leaves what an uninterrupted one leaves.
C15_AbortLeavesGaps ==
    \A p \in Procs :
        /\ (\/ AbortedIn(p, {"ra_delete"}) /\ Deletes(p) # {}
            \/ AbortedIn(p, {"ra_process", "ra_rebuild", "ra_history"})) =>
              /\ MetadataOf(bucket) = MetadataOf(run[p].start)
              /\ SomeRawUnprocessed(bucket)
        /\ (ReturnedReprocess(p) /\ outcome[p] = Reprocessed) =>
              StoreView(bucket) = UninterruptedView(bucket)

\* C15 (reprocess is safe to re-run after a mid-way failure): a reprocess_all
\* run that returns 500 leaves metadata.json as it was; when it aborted
\* during the wipe (after a delete) or during a transform, some raw snapshot
\* is left without a processed artifact; when it aborted during the aggregate
\* rebuild or at the state write, every raw snapshot has its regenerated
\* artifact; and every reprocess_all run that completes, also one that starts
\* from what an aborted one left, leaves the processed set, aggregate and
\* source version of an uninterrupted run.
C15_ReprocessRecovers ==
    \A p \in Procs :
        /\ (ReturnedReprocess(p) /\ outcome[p].status = 500) =>
              MetadataOf(bucket) = MetadataOf(run[p].start)
        /\ (\/ AbortedIn(p, {"ra_delete"}) /\ Deletes(p) # {}
            \/ AbortedIn(p, {"ra_process"})) =>
              SomeRawUnprocessed(bucket)
        /\ AbortedIn(p, {"ra_rebuild", "ra_history", "ra_update_state"}) =>
              /\ ~SomeRawUnprocessed(bucket)
              /\ \A k \in ListBlobs(bucket, "raw") :
                    bucket[ParquetPath(k[2])] = Transform(bucket[k])
        /\ (ReturnedReprocess(p) /\ outcome[p] = Reprocessed) =>
              StoreView(bucket) = UninterruptedView(bucket)

\* A reprocess_all run completed from a store whose recorded version had no
\* processed artifact: only a reprocess_all that aborted after deleting it
\* leaves that.
C15_Witness ==
    \E p \in Procs :
        /\ ReturnedReprocess(p)
        /\ outcome[p] = Reprocessed
        /\ SourceVersion(run[p].start) # 0
        /\ ~Exists(run[p].start, ParquetPath(SourceVersion(run[p].start)))
        /\ StoreView(bucket) = UninterruptedView(bucket)

(* C20 *)

\* C20 (artifact and state provenance): in every state of serialized
\* process_latest and reprocess_all runs, any of which may abort at any
\* step, every processed artifact has the raw snapshot of its version, and
\* when metadata.json records a source version the raw snapshot at the
\* state's raw_path() exists.
C20_Provenance ==
    /\ \A k \in ListBlobs(bucket, "processed") : Exists(bucket, RawPath(k[2]))
    /\ (Exists(bucket, MetadataPath) /\ Parses(bucket[MetadataPath])) =>
          LET state == FromJson(bucket[MetadataPath])
          IN state.source_updated_at # 0 =>
                /\ StateRawPath(state) = RawPath(state.source_updated_at)
                /\ Exists(bucket, StateRawPath(state))

\* A reprocess_all run aborted in its transform loop: metadata.json records
\* a version whose processed artifact is gone while its raw snapshot is
\* there, next to a regenerated artifact of another version.
C20_Witness ==
    \E p \in Procs :
        /\ AbortedIn(p, {"ra_process"})
        /\ SourceVersion(bucket) # 0
        /\ ~Exists(bucket, ParquetPath(SourceVersion(bucket)))
        /\ Exists(bucket, RawPath(SourceVersion(bucket)))
        /\ ListBlobs(bucket, "processed") # {}

(* C17 *)

\* The raw and processed paths process_latest derives from a probed string.
RawPathOf(s) == RawPath(ParseProcessDate(s))
ParquetPathOf(s) == ParquetPath(ParseProcessDate(s))

\* C17 (version-keyed paths are collision-free and agree across the code
\* paths): a probed string that was never fetched is not taken for one that
\* was, that is, a run returns "No new data" only for a string whose raw
\* snapshot was fetched before; and for every probed string the processed
\* path of process_latest, the one reprocess_all derives from the raw file
\* name and PipelineState's parquet_path() for that version are the same
\* path.
C17_TokensDistinguished ==
    [][/\ \A p \in Procs :
             (pc[p] = "pl_check" /\ outcome'[p] = NoNewData) =>
                 loc[p].process_date_str \in seen.fetched
       /\ \A s \in ProbeStrings :
             /\ ParquetPathOf(s) = ParquetPath(TimestampStr(RawPathOf(s)))
             /\ ParquetPathOf(s) =
                   StateParquetPath([EmptyState EXCEPT
                       !.source_updated_at = ParseProcessDate(s)])]_vars

(* C16 *)

\* C16 (overlapping runs are unprotected): the store is guarded by nothing
\* but the serialization of runs.  While runs are serialized, the state write
\* of reprocess_all never moves the persisted source version backward, a
\* process_latest run that returns "OK" leaves its processed artifact in
\* place and its rows in the aggregate, and no run uploads to a raw path that
\* holds an object; C16_Witness and C16_DoubleFetch are the states overlapping
\* runs reach instead.
C16_SerializationProtects ==
    [][~overlap =>
          \A p \in Procs :
              /\ (pc[p] = "ra_update_state" /\ outcome'[p] = Reprocessed) =>
                    SourceVersion(bucket') >= SourceVersion(bucket)
              /\ (pc[p] = "pl_update_state" /\ outcome'[p] = OK) =>
                    /\ Exists(bucket', ParquetPath(run[p].probed))
                    /\ bucket'[HistoryPath].history = ProcessedRows(bucket')
              /\ \A k \in ListBlobs(bucket, "raw") : ~UploadsTo(p, k)]_vars

\* process_latest overlapped reprocess_all and both returned 200: the version
\* process_latest recorded has been overwritten by the older one of
\* reprocess_all's raw listing, and the processed artifact process_latest
\* wrote has been deleted by the wipe and not regenerated.
C16_Witness ==
    /\ overlap
    /\ \E p, q \in Procs :
          /\ ReturnedLatest(p) /\ outcome[p] = OK
          /\ ReturnedReprocess(q) /\ outcome[q] = Reprocessed
          /\ UploadsOf(p, ParquetPath(run[p].probed)) # {}
          /\ SourceVersion(bucket) < run[p].probed
          /\ Exists(bucket, RawPath(run[p].probed))
          /\ ~Exists(bucket, ParquetPath(run[p].probed))

\* Two process_latest runs probing the same new version overlapped: both
\* passed the existence check, both uploaded the raw snapshot and both wrote
\* metadata.json.
C16_DoubleFetch ==
    /\ overlap
    /\ \E v \in Versions :
          \A p \in Procs :
              /\ ReturnedLatest(p) /\ outcome[p] = OK
              /\ run[p].probed = v
              /\ UploadsOf(p, RawPath(v)) # {}
              /\ UploadsOf(p, MetadataPath) # {}

(* C18 *)

\* The requests fetch_all_jobs has made: the offsets, in order.
Requests(p) == [i \in DOMAIN run[p].log |-> run[p].log[i][2]]

\* C18 (pagination terminates and is complete): a fetch_all_jobs call on a
\* dataset of N records requests the offsets 0, PAGE_SIZE, 2 * PAGE_SIZE, ...
\* and never more than N \div PAGE_SIZE + 1 pages; while it runs, all_records
\* holds the records before its offset, once each and in order; it returns
\* after exactly N \div PAGE_SIZE + 1 requests, the last one being the first
\* short page (an empty one when N is a multiple of PAGE_SIZE), and returns
\* the N records once each in offset order; a call that failed a request
\* returns no records.
C18_PaginationComplete ==
    \A p \in Procs :
        run[p].kind = "fetch_all_jobs" =>
            LET N == source.records
                reqs == Requests(p)
            IN /\ Len(reqs) <= N \div PAGE_SIZE + 1
               /\ \A i \in DOMAIN reqs : reqs[i] = (i - 1) * PAGE_SIZE
               /\ pc[p] = "fa_request" =>
                     /\ loc[p].offset = Len(reqs) * PAGE_SIZE
                     /\ loc[p].offset <= N
                     /\ loc[p].all_records = [i \in 1..loc[p].offset |-> i - 1]
               /\ (pc[p] = "idle" /\ outcome[p].status # 500) =>
                     /\ outcome[p] = Result([i \in 1..N |-> i - 1])
                     /\ Len(reqs) = N \div PAGE_SIZE + 1
                     /\ Len(Page(N, PAGE_SIZE, reqs[Len(reqs)])) = N % PAGE_SIZE
               /\ (pc[p] = "idle" /\ outcome[p].status = 500) =>
                     outcome[p] = Error("fa_request")

\* A call returned after a last, empty page: the dataset holds a positive
\* multiple of PAGE_SIZE records.
C18_Witness ==
    \E p \in Procs :
        /\ run[p].kind = "fetch_all_jobs"
        /\ pc[p] = "idle"
        /\ outcome[p].status # 500
        /\ source.records > 0
        /\ source.records % PAGE_SIZE = 0
        /\ Len(run[p].log) = source.records \div PAGE_SIZE + 1
        /\ Len(outcome[p].value) = source.records

(* C19 *)

\* C19 (older fetch path skips on unchanged metadata and writes raw before
\* the pointer): a fetch_jobs(bucket_name) call that returns, returns None
\* and writes nothing exactly when metadata.json existed with the
\* dataUpdatedAt the source reports, and otherwise has uploaded the raw
\* snapshot, then metadata.json, and returns the raw path; in every state,
\* the rawPath of metadata.json names an existing raw snapshot, and no two
\* raw snapshots carry the same dataUpdatedAt.
C19_LegacyFetch ==
    /\ \A p \in Procs :
          (run[p].kind = "fetch_jobs" /\ pc[p] = "idle" /\ outcome[p].status # 500) =>
              LET start == run[p].start
                  raw_path == RawPath(clock)
              IN IF /\ Exists(start, MetadataPath)
                    /\ start[MetadataPath].dataUpdatedAt = run[p].probed
                 THEN /\ outcome[p] = Result(NoPath)
                      /\ run[p].log = <<>>
                      /\ bucket = start
                 ELSE /\ outcome[p] = Result(raw_path)
                      /\ run[p].log = << <<"upload", raw_path>>,
                                          <<"upload", MetadataPath>> >>
                      /\ bucket[MetadataPath].rawPath = raw_path
    /\ Exists(bucket, MetadataPath) => Exists(bucket, bucket[MetadataPath].rawPath)
    /\ \A j, k \in ListBlobs(bucket, "raw") :
          bucket[j].metadata.dataUpdatedAt = bucket[k].metadata.dataUpdatedAt => j = k

\* The claim without its last clause.
C19_SkipAndOrder ==
    /\ \A p \in Procs :
          (run[p].kind = "fetch_jobs" /\ pc[p] = "idle" /\ outcome[p].status # 500) =>
              LET start == run[p].start
                  raw_path == RawPath(clock)
              IN IF /\ Exists(start, MetadataPath)
                    /\ start[MetadataPath].dataUpdatedAt = run[p].probed
                 THEN /\ outcome[p] = Result(NoPath)
                      /\ run[p].log = <<>>
                      /\ bucket = start
                 ELSE /\ outcome[p] = Result(raw_path)
                      /\ run[p].log = << <<"upload", raw_path>>,
                                          <<"upload", MetadataPath>> >>
                      /\ bucket[MetadataPath].rawPath = raw_path
    /\ Exists(bucket, MetadataPath) => Exists(bucket, bucket[MetadataPath].rawPath)

=============================================================================
